---------------------------- MODULE Spec2Model ----------------------------
(***************************************************************************)
(* Model of the chunk retrieval engine and retrieval cache of nostrdownload *)
(* (lib/nostr.ts: fetchChunks, fetchChunkEventsWithFilters,                 *)
(* parseChunkIndexFromTags, the module-level chunkCache).                   *)
(*                                                                         *)
(* JavaScript runs the code on one thread: a call of fetchChunks runs       *)
(* without interruption up to its first await, relay callbacks (onevent,    *)
(* onclose) are tasks, and the continuation of an await is a microtask.     *)
(* Microtasks run in FIFO order before the next task; the variable microq   *)
(* is that queue.                                                           *)
(*                                                                         *)
(* One cache key (one owner, one file hash) is modelled.  Strings that the  *)
(* code parses (tag values) are sequences of one-character strings.         *)
(***************************************************************************)
EXTENDS Integers, Sequences, FiniteSets, TLC

(***************************************************************************)
(* Bounds of the model.                                                     *)
(***************************************************************************)
\* number of fetchChunks calls made on the key; the calls are numbered in the
\* order in which they are made
NumCallers == 3
\* total_chunks of the manifest of the modelled file
TotalChunks == 2
\* The code's batch size is 200 (line 309); the model scales it down so that
\* a manifest of two identifiers is split into several batches.
CHUNK_ID_BATCH_SIZE == 1
\* longest tag value drawn for the parsing specification
MaxTagLen == 2
\* fetchFileIndex: pages asked for, total_archives of an index, records in the
\* answer to one query, and their created_at values
MaxPage == 3
MaxArchives == 2
MaxRecords == 2
MaxCreatedAt == 2
\* getDTagForPage applied on its own
MaxPageArg == 8
MaxArchivesArg == 8

Callers == 1 .. NumCallers

(***************************************************************************)
(* Optional values: null / undefined / NaN are None, a value v is Some(v).  *)
(***************************************************************************)
None == << >>
Some(v) == << v >>

(***************************************************************************)
(* parseInt(str, 10): leading white space is skipped, then an optional      *)
(* sign, then the longest run of decimal digits; NaN when that run is       *)
(* empty.  Anything after the digits is ignored.                            *)
(***************************************************************************)
DigitChars == << "0", "1", "2", "3", "4", "5", "6", "7", "8", "9" >>

IsDigit(ch) == \E d \in 1 .. Len(DigitChars) : DigitChars[d] = ch

DigitVal(ch) == (CHOOSE d \in 1 .. Len(DigitChars) : DigitChars[d] = ch) - 1

RECURSIVE SkipSpaces(_)
SkipSpaces(s) ==
    IF s # << >> /\ Head(s) = " " THEN SkipSpaces(Tail(s)) ELSE s

RECURSIVE DigitPrefix(_)
DigitPrefix(s) ==
    IF s # << >> /\ IsDigit(Head(s))
    THEN << Head(s) >> \o DigitPrefix(Tail(s))
    ELSE << >>

RECURSIVE DigitsValue(_, _)
DigitsValue(s, acc) ==
    IF s = << >> THEN acc ELSE DigitsValue(Tail(s), 10 * acc + DigitVal(Head(s)))

parseInt(str) ==
    LET t == SkipSpaces(str)
        signed == t # << >> /\ Head(t) \in {"-", "+"}
        body == IF signed THEN Tail(t) ELSE t
        digits == DigitPrefix(body)
        magnitude == DigitsValue(digits, 0)
    IN  IF digits = << >> THEN None
        ELSE IF signed /\ Head(t) = "-" THEN Some(0 - magnitude)
        ELSE Some(magnitude)

(***************************************************************************)
(* dTag.split(':') followed by parts[parts.length - 1]: the text after the  *)
(* last colon, the whole string when it holds no colon.                     *)
(***************************************************************************)
RECURSIVE LastSegment(_)
LastSegment(s) ==
    IF \E k \in 1 .. Len(s) : s[k] = ":"
    THEN LastSegment(Tail(s))
    ELSE s

(***************************************************************************)
(* tags.find(t => t[0] === name): the first tag of that name, None if no    *)
(* tag has it.  A tag is a sequence << name >> or << name, value >>.        *)
(***************************************************************************)
FindTag(tags, name) ==
    IF \E k \in 1 .. Len(tags) : tags[k][1] = name
    THEN Some(tags[CHOOSE k \in 1 .. Len(tags) :
                   /\ tags[k][1] = name
                   /\ \A j \in 1 .. k - 1 : tags[j][1] # name])
    ELSE None

\* t[1] of a found tag is truthy: it exists and is not the empty string
HasValue(found) == found # None /\ Len(found[1]) >= 2 /\ found[1][2] # << >>

parseChunkIndexFromTags_dFirst(tags) ==
    LET chunkTag == FindTag(tags, "chunk")
        dTagFound == FindTag(tags, "d")
        fromChunk == IF HasValue(chunkTag) THEN parseInt(chunkTag[1][2]) ELSE None
    IN  IF HasValue(dTagFound) /\ parseInt(LastSegment(dTagFound[1][2])) # None
        THEN parseInt(LastSegment(dTagFound[1][2]))
        ELSE fromChunk

parseChunkIndexFromTags(tags) ==
    LET chunkTag == FindTag(tags, "chunk")
        dTagFound == FindTag(tags, "d")
        fromChunk == IF HasValue(chunkTag) THEN parseInt(chunkTag[1][2]) ELSE None
    IN  IF fromChunk # None THEN fromChunk
        ELSE IF ~ HasValue(dTagFound) THEN None
        ELSE parseInt(LastSegment(dTagFound[1][2]))

(***************************************************************************)
(* A Map<number, ChunkEvent> is the sequence of its values in insertion     *)
(* order (the order Map.values() yields); no two values share an index.     *)
(* A ChunkEvent is [index, content, encryption].                            *)
(***************************************************************************)
MapHas(m, i) == \E k \in 1 .. Len(m) : m[k].index = i

MapGet(m, i) == m[CHOOSE k \in 1 .. Len(m) : m[k].index = i]

\* Map.set: a new key is appended, an existing key keeps its position
MapSet(m, i, chunk) ==
    IF MapHas(m, i)
    THEN [k \in 1 .. Len(m) |-> IF m[k].index = i THEN chunk ELSE m[k]]
    ELSE Append(m, chunk)

MapKeys(m) == { m[k].index : k \in 1 .. Len(m) }

(***************************************************************************)
(* Array.from(map.values()).sort((a, b) => a.index - b.index): a stable     *)
(* sort, ascending by index.                                                *)
(***************************************************************************)
RECURSIVE InsertByIndex(_, _)
InsertByIndex(sorted, chunk) ==
    IF sorted = << >> THEN << chunk >>
    ELSE IF Head(sorted).index - chunk.index <= 0
         THEN << Head(sorted) >> \o InsertByIndex(Tail(sorted), chunk)
         ELSE << chunk >> \o sorted

RECURSIVE SortLoop(_, _)
SortLoop(todo, sorted) ==
    IF todo = << >> THEN sorted
    ELSE SortLoop(Tail(todo), InsertByIndex(sorted, Head(todo)))

SortByIndex_unsorted(values) == values

SortByIndex(values) == SortLoop(values, << >>)

(***************************************************************************)
(* The file of the modelled key, its manifest and the records the relays    *)
(* may serve for it.  E1 has no 'chunk' tag; the 'd' tag of E2 disagrees    *)
(* with its 'chunk' tag and E2 carries index 1 with another content than    *)
(* E1; E3 shares the identifier of E2 and carries an index outside          *)
(* 0 .. TotalChunks-1; E4 shares the identifier of E1 and has no tag that   *)
(* yields an index.                                                         *)
(***************************************************************************)
FileHash == "h"

E0 == [id |-> "e0", content |-> "a",
       tags |-> << << "d", << "h", ":", "0" >> >>, << "x", "h" >>,
                   << "chunk", << "0" >> >>, << "encryption", "nip44" >> >>]

E1 == [id |-> "e1", content |-> "b",
       tags |-> << << "d", << "h", ":", "1" >> >>, << "x", "h" >> >>]

E2 == [id |-> "e2", content |-> "c",
       tags |-> << << "d", << "h", ":", "0" >> >>, << "x", "h" >>,
                   << "chunk", << "1" >> >> >>]

E3 == [id |-> "e2", content |-> "d",
       tags |-> << << "d", << "h", ":", "2" >> >>, << "x", "h" >>,
                   << "chunk", << "2" >> >> >>]

E4 == [id |-> "e1", content |-> "z",
       tags |-> << << "d", << "h", ":", "x" >> >>, << "x", "h" >> >>]

Events == { E0, E1, E2, E3, E4 }

\* chunk_infos of the manifest: index 0 is record e0, index 1 is record e1
ManifestChunkInfos ==
    << [index |-> 0, event_id |-> "e0"], [index |-> 1, event_id |-> "e1"] >>

\* the chunkInfos argument of a call: the manifest's list, or none
ChunkInfoChoices == { ManifestChunkInfos, << >> }

(***************************************************************************)
(* indexByEventId (lines 397-402): a Map from event id to index, here the   *)
(* sequence of its [event_id, index] entries in insertion order.            *)
(***************************************************************************)
RECURSIVE BuildIndexByEventId(_, _)
BuildIndexByEventId(infos, acc) ==
    IF infos = << >> THEN acc
    ELSE LET info == Head(infos)
             known == \E k \in 1 .. Len(acc) : acc[k].event_id = info.event_id
             next == IF info.event_id = "" THEN acc
                     ELSE IF known
                          THEN [k \in 1 .. Len(acc) |->
                                   IF acc[k].event_id = info.event_id THEN info ELSE acc[k]]
                          ELSE Append(acc, info)
         IN  BuildIndexByEventId(Tail(infos), next)

indexByEventId(infos) == BuildIndexByEventId(infos, << >>)

\* Array.from(indexByEventId.keys())
IdsOf(infos) == [k \in 1 .. Len(indexByEventId(infos)) |-> indexByEventId(infos)[k].event_id]

\* indexByEventId.get(id)
IndexOfEventId(infos, id) ==
    LET m == indexByEventId(infos)
    IN  IF \E k \in 1 .. Len(m) : m[k].event_id = id
        THEN Some(m[CHOOSE k \in 1 .. Len(m) : m[k].event_id = id].index)
        ELSE None

(***************************************************************************)
(* Filters of the two phases, and which records a subscription with a       *)
(* filter can receive.                                                      *)
(***************************************************************************)
IdsFilter(batch) == [kind |-> "ids", ids |-> batch, x |-> ""]

FallbackFilter == [kind |-> "x", ids |-> << >>, x |-> FileHash]

\* ids.slice(i, i + CHUNK_ID_BATCH_SIZE)
BatchAt(ids, i) ==
    SubSeq(ids, i + 1, IF i + CHUNK_ID_BATCH_SIZE < Len(ids)
                       THEN i + CHUNK_ID_BATCH_SIZE ELSE Len(ids))

Matches(filter, event) ==
    IF filter.kind = "ids"
    THEN \E k \in 1 .. Len(filter.ids) : filter.ids[k] = event.id
    ELSE \E k \in 1 .. Len(event.tags) :
            /\ event.tags[k][1] = "x"
            /\ Len(event.tags[k]) >= 2
            /\ event.tags[k][2] = filter.x

\* lines 413-419 of handleEvent: the index and the encryption of a record
ChunkIndexOf_defaultZero(event, infos) ==
    LET parsedIndex == parseChunkIndexFromTags(event.tags)
        fromInfos == IndexOfEventId(infos, event.id)
    IN  IF parsedIndex # None THEN parsedIndex
        ELSE IF fromInfos # None THEN fromInfos ELSE Some(0)

ChunkIndexOf(event, infos) ==
    LET parsedIndex == parseChunkIndexFromTags(event.tags)
    IN  IF parsedIndex # None THEN parsedIndex ELSE IndexOfEventId(infos, event.id)

EncryptionOf(event) ==
    LET encryptionTag == FindTag(event.tags, "encryption")
    IN  IF encryptionTag # None /\ Len(encryptionTag[1]) >= 2 /\ encryptionTag[1][2] # ""
        THEN encryptionTag[1][2]
        ELSE "none"

(***************************************************************************)
(* State.                                                                   *)
(*   cacheExists, cacheMap, inFlight : the entry of the key in chunkCache   *)
(*     (its chunksByIndex and its inFlight: 0 is undefined, c the           *)
(*     fetchPromise of caller c)                                            *)
(*   pc          : where each call of fetchChunks stands                    *)
(*   chunkInfos  : the chunkInfos argument of each call                     *)
(*   chunksByIndex, seenEventIds : the locals of each call                  *)
(*   sub         : the filter of the subscription a call has open, or None  *)
(*   phase, batchStart : where the retrieval (the async closure of lines    *)
(*     408-480) of a call stands, and its loop variable i                   *)
(*   fetchValue  : the value its fetchPromise resolved to                   *)
(*   waiters     : per fetchPromise, the calls awaiting it at line 385      *)
(*   result      : what each call returned                                  *)
(*   progress    : the counts each call passed to onProgress                *)
(*   microq      : the microtask queue                                      *)
(*   relayEvents : the records the relays may send                          *)
(*   resolver    : the call of fetchFileIndex or fetchManifest in progress  *)
(* History, read by the properties only:                                    *)
(*   path, waitedOn, readySize, subsOpened, stoppedAt, last                 *)
(***************************************************************************)
VARIABLES cacheExists, cacheMap, inFlight, pc, chunkInfos, chunksByIndex,
          seenEventIds, sub, phase, batchStart, fetchValue, waiters, result,
          progress, microq, relayEvents, resolver,
          path, waitedOn, readySize, subsOpened, stoppedAt, last

cacheVars == << cacheExists, cacheMap, inFlight >>
callVars == << pc, chunkInfos, result, path, waitedOn, readySize >>
retrievalVars == << chunksByIndex, seenEventIds, sub, phase, batchStart, fetchValue,
                    progress, subsOpened, stoppedAt >>
vars == << cacheExists, cacheMap, inFlight, pc, chunkInfos, chunksByIndex,
           seenEventIds, sub, phase, batchStart, fetchValue, waiters, result,
           progress, microq, relayEvents, resolver,
           path, waitedOn, readySize, subsOpened, stoppedAt, last >>

NoEvent == [kind |-> "none", caller |-> 0, id |-> "", content |-> "",
            index |-> None, outcome |-> ""]

(***************************************************************************)
(* resolver: the call in progress.                                          *)
(*   op, page, totalArchives : the function called and its arguments        *)
(*   step         : the await the call stands at                            *)
(*   queries      : the filters passed to pool.querySync so far, in order   *)
(*   response     : the records returned by the query the call ended on     *)
(*   currentIndex : what the inner fetchFileIndex(.., 1) returned           *)
(*   inner        : how that inner call ended                               *)
(*   xCount       : the number of records the '#x' query returned           *)
(*   dTag, outcome, value : what the call computed and how it ended         *)
(***************************************************************************)
ResolverIdle ==
    [op |-> "none", page |-> 0, totalArchives |-> 0, step |-> "idle",
     queries |-> << >>, response |-> << >>, currentIndex |-> None, inner |-> "none",
     xCount |-> None, dTag |-> None, outcome |-> "none", value |-> None]

InitWith(events) ==
    /\ cacheExists = FALSE
    /\ cacheMap = << >>
    /\ inFlight = 0
    /\ pc = [c \in Callers |-> "idle"]
    /\ chunkInfos = [c \in Callers |-> << >>]
    /\ chunksByIndex = [c \in Callers |-> << >>]
    /\ seenEventIds = [c \in Callers |-> {}]
    /\ sub = [c \in Callers |-> None]
    /\ phase = [c \in Callers |-> "none"]
    /\ batchStart = [c \in Callers |-> 0]
    /\ fetchValue = [c \in Callers |-> << >>]
    /\ waiters = [c \in Callers |-> << >>]
    /\ result = [c \in Callers |-> << >>]
    /\ progress = [c \in Callers |-> << >>]
    /\ microq = << >>
    /\ relayEvents = events
    /\ resolver = ResolverIdle
    /\ path = [c \in Callers |-> "none"]
    /\ waitedOn = [c \in Callers |-> 0]
    /\ readySize = [c \in Callers |-> None]
    /\ subsOpened = [c \in Callers |-> 0]
    /\ stoppedAt = [c \in Callers |-> None]
    /\ last = NoEvent

Init == InitWith(Events)

\* the chunksByIndex of the cache entry, as `cached?.chunksByIndex ?? []` reads it
CachedMap == IF cacheExists THEN cacheMap ELSE << >>

Task(kind, c) == [kind |-> kind, caller |-> c]

(***************************************************************************)
(* Lines 392-490, run without interruption: the locals are set up, the      *)
(* async closure starts and runs up to its first await (it opens the first  *)
(* id batch, or the fallback subscription, or returns at once), the         *)
(* closure's promise becomes the entry's inFlight, and the call awaits it.  *)
(* q is the microtask queue the continuation is appended to.                *)
(***************************************************************************)
StartRetrieval(c, infos, q) ==
    LET start == CachedMap
        ids == IdsOf(infos)
        returnsAtOnce == Len(ids) = 0 /\ ~ (Len(start) < TotalChunks)
    IN  /\ chunksByIndex' = [chunksByIndex EXCEPT ![c] =
                                 IF returnsAtOnce THEN << >> ELSE start]
        /\ seenEventIds' = [seenEventIds EXCEPT ![c] = {}]
        /\ progress' = [progress EXCEPT ![c] =
                            IF Len(start) > 0 THEN << Len(start) >> ELSE << >>]
        /\ batchStart' = [batchStart EXCEPT ![c] = 0]
        /\ IF Len(ids) > 0
           THEN /\ sub' = [sub EXCEPT ![c] = Some(IdsFilter(BatchAt(ids, 0)))]
                /\ phase' = [phase EXCEPT ![c] = "ids"]
                /\ subsOpened' = [subsOpened EXCEPT ![c] = 1]
           ELSE IF Len(start) < TotalChunks
           THEN /\ sub' = [sub EXCEPT ![c] = Some(FallbackFilter)]
                /\ phase' = [phase EXCEPT ![c] = "x"]
                /\ subsOpened' = [subsOpened EXCEPT ![c] = 1]
           ELSE /\ sub' = [sub EXCEPT ![c] = None]
                /\ phase' = [phase EXCEPT ![c] = "returned"]
                /\ subsOpened' = [subsOpened EXCEPT ![c] = 0]
        /\ fetchValue' = [fetchValue EXCEPT ![c] =
                            IF returnsAtOnce THEN SortByIndex(start) ELSE << >>]
        /\ cacheExists' = TRUE
        /\ cacheMap' = start
        /\ inFlight' = c
        /\ pc' = [pc EXCEPT ![c] = "fetching"]
        /\ microq' = IF returnsAtOnce THEN Append(q, Task("settled", c)) ELSE q
        /\ UNCHANGED << stoppedAt, waiters >>

(***************************************************************************)
(* fetchChunks, lines 377-390 and, when neither return is taken, on to the  *)
(* await of line 490.                                                       *)
(***************************************************************************)
CallAlwaysFetch(c, infos) ==
    /\ pc[c] = "idle"
    /\ \A b \in Callers : b < c => pc[b] # "idle"
    /\ microq = << >>
    /\ chunkInfos' = [chunkInfos EXCEPT ![c] = infos]
    /\ StartRetrieval(c, infos, microq)
    /\ UNCHANGED << result, path, waitedOn, readySize, relayEvents, resolver >>
    /\ last' = NoEvent

Call(c, infos) ==
    /\ pc[c] = "idle"
    /\ \A b \in Callers : b < c => pc[b] # "idle"
    /\ microq = << >>
    /\ chunkInfos' = [chunkInfos EXCEPT ![c] = infos]
    /\ IF cacheExists /\ Len(cacheMap) = TotalChunks
       THEN \* line 381: cache hit
            /\ result' = [result EXCEPT ![c] = SortByIndex(cacheMap)]
            /\ pc' = [pc EXCEPT ![c] = "done"]
            /\ path' = [path EXCEPT ![c] = "hit"]
            /\ UNCHANGED << cacheVars, retrievalVars, waiters, microq, waitedOn, readySize >>
       ELSE IF cacheExists /\ inFlight # 0
       THEN \* line 385: await cached.inFlight
            /\ pc' = [pc EXCEPT ![c] = "waiting"]
            /\ waitedOn' = [waitedOn EXCEPT ![c] = inFlight]
            /\ IF phase[inFlight] = "returned"
               THEN /\ microq' = Append(microq, Task("ready", c))
                    /\ UNCHANGED waiters
               ELSE /\ waiters' = [waiters EXCEPT ![inFlight] = Append(@, c)]
                    /\ UNCHANGED microq
            /\ UNCHANGED << cacheVars, retrievalVars, result, path, readySize >>
       ELSE /\ StartRetrieval(c, infos, microq)
            /\ UNCHANGED << result, path, waitedOn, readySize >>
    /\ last' = NoEvent
    /\ UNCHANGED << relayEvents, resolver >>

(***************************************************************************)
(* handleEvent (lines 409-432) for a record delivered to the subscription   *)
(* of call c, followed by the shouldStop test of onevent (lines 329-334).   *)
(* Closing the subscription resolves the promise the retrieval awaits: its  *)
(* continuation is queued.                                                  *)
(***************************************************************************)
HandleOutcome(c, event) ==
    LET index == ChunkIndexOf(event, chunkInfos[c])
    IN  IF event.id \in seenEventIds[c] THEN "duplicate"
        ELSE IF index = None THEN "discarded"
        ELSE IF MapHas(chunksByIndex[c], index[1]) THEN "present"
        ELSE "inserted"

NewChunk(c, event) ==
    [index |-> ChunkIndexOf(event, chunkInfos[c])[1],
     content |-> event.content,
     encryption |-> EncryptionOf(event)]

handleEvent_noDedup(c, event) ==
    LET index == ChunkIndexOf(event, chunkInfos[c])
        outcome == IF index = None THEN "discarded"
                   ELSE IF MapHas(chunksByIndex[c], index[1]) THEN "present"
                   ELSE "inserted"
        chunk == NewChunk(c, event)
    IN  /\ seenEventIds' = [seenEventIds EXCEPT ![c] = @ \cup {event.id}]
        /\ IF outcome = "inserted"
           THEN /\ chunksByIndex' = [chunksByIndex EXCEPT ![c] = MapSet(@, chunk.index, chunk)]
                /\ cacheMap' = IF cacheExists THEN MapSet(cacheMap, chunk.index, chunk)
                               ELSE cacheMap
                /\ progress' = [progress EXCEPT ![c] = Append(@, Len(chunksByIndex[c]) + 1)]
           ELSE UNCHANGED << chunksByIndex, cacheMap, progress >>

handleEvent_noMerge(c, event) ==
    LET outcome == HandleOutcome(c, event)
        chunk == NewChunk(c, event)
    IN  /\ seenEventIds' = [seenEventIds EXCEPT ![c] = @ \cup {event.id}]
        /\ IF outcome = "inserted"
           THEN /\ chunksByIndex' = [chunksByIndex EXCEPT ![c] = MapSet(@, chunk.index, chunk)]
                /\ progress' = [progress EXCEPT ![c] = Append(@, Len(chunksByIndex[c]) + 1)]
                /\ UNCHANGED cacheMap
           ELSE UNCHANGED << chunksByIndex, cacheMap, progress >>

handleEvent(c, event) ==
    LET outcome == HandleOutcome(c, event)
        chunk == NewChunk(c, event)
    IN  /\ seenEventIds' = [seenEventIds EXCEPT ![c] = @ \cup {event.id}]
        /\ IF outcome = "inserted"
           THEN /\ chunksByIndex' = [chunksByIndex EXCEPT ![c] = MapSet(@, chunk.index, chunk)]
                /\ cacheMap' = IF cacheExists THEN MapSet(cacheMap, chunk.index, chunk)
                               ELSE cacheMap
                /\ progress' = [progress EXCEPT ![c] = Append(@, Len(chunksByIndex[c]) + 1)]
           ELSE UNCHANGED << chunksByIndex, cacheMap, progress >>

\* () => chunksByIndex.size >= totalChunks, read after handleEvent has run
shouldStop(c) == Len(chunksByIndex'[c]) >= TotalChunks

Deliver(c, event) ==
    /\ microq = << >>
    /\ sub[c] # None
    /\ event \in relayEvents
    /\ Matches(sub[c][1], event)
    /\ handleEvent(c, event)
    /\ last' = [kind |-> "event", caller |-> c, id |-> event.id,
                content |-> event.content,
                index |-> ChunkIndexOf(event, chunkInfos[c]),
                outcome |-> HandleOutcome(c, event)]
    /\ IF shouldStop(c)
       THEN /\ sub' = [sub EXCEPT ![c] = None]
            /\ microq' = Append(microq, Task("retrieval", c))
            /\ stoppedAt' = [stoppedAt EXCEPT ![c] =
                                Some([subs |-> subsOpened[c],
                                      reached |-> Len(chunksByIndex[c]) < TotalChunks])]
       ELSE UNCHANGED << sub, microq, stoppedAt >>
    /\ UNCHANGED << cacheExists, inFlight, callVars, phase, batchStart, fetchValue,
                    waiters, relayEvents, resolver, subsOpened >>

(***************************************************************************)
(* onclose (lines 336-342): the subscription of call c ends because every   *)
(* relay signalled end of stored data or CHUNK_FETCH_MAX_WAIT_MS elapsed.   *)
(***************************************************************************)
SubClose_noResolve(c) ==
    /\ microq = << >>
    /\ sub[c] # None
    /\ sub' = [sub EXCEPT ![c] = None]
    /\ last' = NoEvent
    /\ UNCHANGED << cacheVars, callVars, chunksByIndex, seenEventIds, phase, batchStart,
                    fetchValue, progress, subsOpened, stoppedAt, waiters, relayEvents,
                    resolver, microq >>

SubClose(c) ==
    /\ microq = << >>
    /\ sub[c] # None
    /\ sub' = [sub EXCEPT ![c] = None]
    /\ microq' = Append(microq, Task("retrieval", c))
    /\ last' = NoEvent
    /\ UNCHANGED << cacheVars, callVars, chunksByIndex, seenEventIds, phase, batchStart,
                    fetchValue, progress, subsOpened, stoppedAt, waiters, relayEvents, resolver >>

(***************************************************************************)
(* The retrieval of call c resumes after the await of line 447 or 470.      *)
(* After an id batch: leave the loop when enough chunks are held, else open *)
(* the next batch; after the loop open the fallback subscription when too   *)
(* few chunks are held; otherwise return the sorted values (line 479),      *)
(* which resolves fetchPromise: the call itself, which awaited it first,    *)
(* and then the calls waiting at line 385 are queued in that order.         *)
(***************************************************************************)
RECURSIVE ReadyTasks(_)
ReadyTasks(ws) ==
    IF ws = << >> THEN << >> ELSE << Task("ready", Head(ws)) >> \o ReadyTasks(Tail(ws))

RetrievalReturns(c, q) ==
    /\ phase' = [phase EXCEPT ![c] = "returned"]
    /\ fetchValue' = [fetchValue EXCEPT ![c] = SortByIndex(chunksByIndex[c])]
    /\ microq' = q \o << Task("settled", c) >> \o ReadyTasks(waiters[c])
    /\ waiters' = [waiters EXCEPT ![c] = << >>]
    \* the closure's locals are dead from here on
    /\ chunksByIndex' = [chunksByIndex EXCEPT ![c] = << >>]
    /\ seenEventIds' = [seenEventIds EXCEPT ![c] = {}]
    /\ UNCHANGED << sub, batchStart, subsOpened >>

OpenSubscription(c, filter, nextPhase, i, q) ==
    /\ sub' = [sub EXCEPT ![c] = Some(filter)]
    /\ phase' = [phase EXCEPT ![c] = nextPhase]
    /\ batchStart' = [batchStart EXCEPT ![c] = i]
    /\ subsOpened' = [subsOpened EXCEPT ![c] = @ + 1]
    /\ microq' = q
    /\ UNCHANGED << fetchValue, waiters, chunksByIndex, seenEventIds >>

RetrievalStep_noBreak(c) ==
    LET ids == IdsOf(chunkInfos[c])
        i == batchStart[c] + CHUNK_ID_BATCH_SIZE
        q == Tail(microq)
    IN  /\ IF phase[c] = "ids" /\ i < Len(ids)
           THEN OpenSubscription(c, IdsFilter(BatchAt(ids, i)), "ids", i, q)
           ELSE IF phase[c] = "ids"
           THEN OpenSubscription(c, FallbackFilter, "x", batchStart[c], q)
           ELSE RetrievalReturns(c, q)
        /\ last' = NoEvent
        /\ UNCHANGED << cacheVars, callVars, progress, stoppedAt, relayEvents, resolver >>

RetrievalStep_alwaysFallback(c) ==
    LET ids == IdsOf(chunkInfos[c])
        i == batchStart[c] + CHUNK_ID_BATCH_SIZE
        enough == Len(chunksByIndex[c]) >= TotalChunks
        q == Tail(microq)
    IN  /\ IF phase[c] = "ids" /\ ~ enough /\ i < Len(ids)
           THEN OpenSubscription(c, IdsFilter(BatchAt(ids, i)), "ids", i, q)
           ELSE IF phase[c] = "ids"
           THEN OpenSubscription(c, FallbackFilter, "x", batchStart[c], q)
           ELSE RetrievalReturns(c, q)
        /\ last' = NoEvent
        /\ UNCHANGED << cacheVars, callVars, progress, stoppedAt, relayEvents, resolver >>

RetrievalStep(c) ==
    LET ids == IdsOf(chunkInfos[c])
        i == batchStart[c] + CHUNK_ID_BATCH_SIZE
        enough == Len(chunksByIndex[c]) >= TotalChunks
        q == Tail(microq)
    IN  /\ IF phase[c] = "ids" /\ ~ enough /\ i < Len(ids)
           THEN OpenSubscription(c, IdsFilter(BatchAt(ids, i)), "ids", i, q)
           ELSE IF phase[c] = "ids" /\ Len(chunksByIndex[c]) < TotalChunks
           THEN OpenSubscription(c, FallbackFilter, "x", batchStart[c], q)
           ELSE RetrievalReturns(c, q)
        /\ last' = NoEvent
        /\ UNCHANGED << cacheVars, callVars, progress, stoppedAt, relayEvents, resolver >>

RunRetrieval ==
    /\ microq # << >>
    /\ Head(microq).kind = "retrieval"
    /\ RetrievalStep(Head(microq).caller)

(***************************************************************************)
(* Lines 490-497: the call resumes after `await fetchPromise`; the finally  *)
(* block clears the entry's inFlight, whichever promise it holds, and the   *)
(* call returns the promise's value.                                        *)
(***************************************************************************)
Settle(c) ==
    /\ inFlight' = IF cacheExists THEN 0 ELSE inFlight
    /\ result' = [result EXCEPT ![c] = fetchValue[c]]
    /\ pc' = [pc EXCEPT ![c] = "done"]
    /\ path' = [path EXCEPT ![c] = "fetched"]
    /\ microq' = Tail(microq)
    /\ last' = NoEvent
    /\ UNCHANGED << cacheExists, cacheMap, chunkInfos, waitedOn, readySize,
                    retrievalVars, waiters, relayEvents, resolver >>

RunSettled ==
    /\ microq # << >>
    /\ Head(microq).kind = "settled"
    /\ Settle(Head(microq).caller)

(***************************************************************************)
(* Lines 386-390: a call resumes after `await cached.inFlight`; it returns  *)
(* the cached chunks when the entry now holds exactly totalChunks of them,  *)
(* and otherwise goes on to line 392 and starts a retrieval of its own.     *)
(***************************************************************************)
ResumeAlwaysFetch(c) ==
    /\ readySize' = [readySize EXCEPT ![c] = Some(Len(CachedMap))]
    /\ StartRetrieval(c, chunkInfos[c], Tail(microq))
    /\ UNCHANGED << result, path >>
    /\ last' = NoEvent
    /\ UNCHANGED << chunkInfos, waitedOn, relayEvents, resolver >>

Resume(c) ==
    /\ readySize' = [readySize EXCEPT ![c] = Some(Len(CachedMap))]
    /\ IF cacheExists /\ Len(cacheMap) = TotalChunks
       THEN /\ result' = [result EXCEPT ![c] = SortByIndex(cacheMap)]
            /\ pc' = [pc EXCEPT ![c] = "done"]
            /\ path' = [path EXCEPT ![c] = "waited"]
            /\ microq' = Tail(microq)
            /\ UNCHANGED << cacheVars, retrievalVars, waiters >>
       ELSE /\ StartRetrieval(c, chunkInfos[c], Tail(microq))
            /\ UNCHANGED << result, path >>
    /\ last' = NoEvent
    /\ UNCHANGED << chunkInfos, waitedOn, relayEvents, resolver >>

RunReady ==
    /\ microq # << >>
    /\ Head(microq).kind = "ready"
    /\ Resume(Head(microq).caller)

Invoke == \E c \in Callers, infos \in ChunkInfoChoices : Call(c, infos)

OnEvent == \E c \in Callers, event \in relayEvents : Deliver(c, event)

OnClose == \E c \in Callers : SubClose(c)

Next ==
    \/ Invoke
    \/ OnEvent
    \/ OnClose
    \/ RunRetrieval
    \/ RunSettled
    \/ RunReady

Spec == Init /\ [][Next]_vars

(***************************************************************************)
(* Scheduling.  The event loop runs every queued microtask, and every       *)
(* subscription ends: subscribeManyEose closes it when the relays have sent *)
(* their stored records, and at the latest after maxWait =                  *)
(* CHUNK_FETCH_MAX_WAIT_MS (line 343).                                      *)
(***************************************************************************)
FairSpec ==
    /\ Spec
    /\ \A c \in Callers : WF_vars(SubClose(c))
    /\ WF_vars(RunRetrieval)
    /\ WF_vars(RunSettled)
    /\ WF_vars(RunReady)

(***************************************************************************)
(* Failure of a retrieval.  pool.subscribeManyEose (line 327) runs inside   *)
(* the executor of the promise fetchChunkEventsWithFilters returns: when it *)
(* throws, that promise is rejected, the await of line 447 or 470 throws in *)
(* the closure, and fetchPromise is rejected.  The call that awaits it at   *)
(* line 490 runs its finally block and rejects; the calls that await it at  *)
(* line 385 reject there.                                                   *)
(***************************************************************************)
\* lines 392-490 when the first subscription cannot be opened
StartRetrievalThrows(c, infos, q) ==
    LET start == CachedMap
        ids == IdsOf(infos)
    IN  /\ Len(ids) > 0 \/ Len(start) < TotalChunks
        /\ chunksByIndex' = [chunksByIndex EXCEPT ![c] = start]
        /\ seenEventIds' = [seenEventIds EXCEPT ![c] = {}]
        /\ progress' = [progress EXCEPT ![c] =
                            IF Len(start) > 0 THEN << Len(start) >> ELSE << >>]
        /\ batchStart' = [batchStart EXCEPT ![c] = 0]
        /\ sub' = [sub EXCEPT ![c] = None]
        /\ phase' = [phase EXCEPT ![c] = "threw"]
        /\ subsOpened' = [subsOpened EXCEPT ![c] = 0]
        /\ fetchValue' = [fetchValue EXCEPT ![c] = << >>]
        /\ cacheExists' = TRUE
        /\ cacheMap' = start
        /\ inFlight' = c
        /\ pc' = [pc EXCEPT ![c] = "fetching"]
        /\ microq' = Append(q, Task("threw", c))
        /\ UNCHANGED << stoppedAt, waiters >>

CallThrows(c, infos) ==
    /\ pc[c] = "idle"
    /\ \A b \in Callers : b < c => pc[b] # "idle"
    /\ microq = << >>
    /\ ~ (cacheExists /\ Len(cacheMap) = TotalChunks)
    /\ ~ (cacheExists /\ inFlight # 0)
    /\ chunkInfos' = [chunkInfos EXCEPT ![c] = infos]
    /\ StartRetrievalThrows(c, infos, microq)
    /\ last' = NoEvent
    /\ UNCHANGED << result, path, waitedOn, readySize, relayEvents, resolver >>

ResumeThrows(c) ==
    /\ ~ (cacheExists /\ Len(cacheMap) = TotalChunks)
    /\ readySize' = [readySize EXCEPT ![c] = Some(Len(CachedMap))]
    /\ StartRetrievalThrows(c, chunkInfos[c], Tail(microq))
    /\ last' = NoEvent
    /\ UNCHANGED << result, path, chunkInfos, waitedOn, relayEvents, resolver >>

\* lines 438-477 when the next subscription cannot be opened
RetrievalStepThrows(c) ==
    LET ids == IdsOf(chunkInfos[c])
        i == batchStart[c] + CHUNK_ID_BATCH_SIZE
        enough == Len(chunksByIndex[c]) >= TotalChunks
    IN  /\ phase[c] = "ids"
        /\ (~ enough /\ i < Len(ids)) \/ Len(chunksByIndex[c]) < TotalChunks
        /\ phase' = [phase EXCEPT ![c] = "threw"]
        /\ microq' = Append(Tail(microq), Task("threw", c))
        /\ last' = NoEvent
        /\ UNCHANGED << cacheVars, callVars, chunksByIndex, seenEventIds, sub, batchStart,
                        fetchValue, progress, subsOpened, stoppedAt, waiters, relayEvents, resolver >>

RECURSIVE RejectTasks(_)
RejectTasks(ws) ==
    IF ws = << >> THEN << >>
    ELSE << Task("readyRejected", Head(ws)) >> \o RejectTasks(Tail(ws))

\* the await of line 447 or 470 throws: the closure ends, fetchPromise is
\* rejected, and the calls awaiting it are queued, the call itself first
RetrievalRejects(c) ==
    /\ phase' = [phase EXCEPT ![c] = "rejected"]
    /\ microq' = Tail(microq) \o << Task("rejected", c) >> \o RejectTasks(waiters[c])
    /\ waiters' = [waiters EXCEPT ![c] = << >>]
    /\ chunksByIndex' = [chunksByIndex EXCEPT ![c] = << >>]
    /\ seenEventIds' = [seenEventIds EXCEPT ![c] = {}]
    /\ last' = NoEvent
    /\ UNCHANGED << cacheVars, callVars, sub, batchStart, fetchValue, progress,
                    subsOpened, stoppedAt, relayEvents, resolver >>

\* lines 490-494 when fetchPromise is rejected: the finally block runs and
\* the call rejects
SettleRejected_noClear(c) ==
    /\ pc' = [pc EXCEPT ![c] = "failed"]
    /\ microq' = Tail(microq)
    /\ last' = NoEvent
    /\ UNCHANGED << cacheVars, chunkInfos, result, path, waitedOn, readySize,
                    retrievalVars, waiters, relayEvents, resolver >>

SettleRejected(c) ==
    /\ inFlight' = IF cacheExists THEN 0 ELSE inFlight
    /\ pc' = [pc EXCEPT ![c] = "failed"]
    /\ microq' = Tail(microq)
    /\ last' = NoEvent
    /\ UNCHANGED << cacheExists, cacheMap, chunkInfos, result, path, waitedOn, readySize,
                    retrievalVars, waiters, relayEvents, resolver >>

\* line 385 when cached.inFlight is rejected: the call rejects there
ResumeRejected(c) ==
    /\ pc' = [pc EXCEPT ![c] = "failed"]
    /\ microq' = Tail(microq)
    /\ last' = NoEvent
    /\ UNCHANGED << cacheVars, chunkInfos, result, path, waitedOn, readySize,
                    retrievalVars, waiters, relayEvents, resolver >>

InvokeThrows == \E c \in Callers, infos \in ChunkInfoChoices : CallThrows(c, infos)

RunReadyThrows ==
    /\ microq # << >>
    /\ Head(microq).kind = "ready"
    /\ ResumeThrows(Head(microq).caller)

RunRetrievalThrows ==
    /\ microq # << >>
    /\ Head(microq).kind = "retrieval"
    /\ RetrievalStepThrows(Head(microq).caller)

RunThrew ==
    /\ microq # << >>
    /\ Head(microq).kind = "threw"
    /\ RetrievalRejects(Head(microq).caller)

RunRejected ==
    /\ microq # << >>
    /\ Head(microq).kind = "rejected"
    /\ SettleRejected(Head(microq).caller)

RunReadyRejected ==
    /\ microq # << >>
    /\ Head(microq).kind = "readyRejected"
    /\ ResumeRejected(Head(microq).caller)

NextFail ==
    \/ Invoke
    \/ OnEvent
    \/ OnClose
    \/ RunRetrieval
    \/ RunSettled
    \/ RunReady
    \/ InvokeThrows
    \/ RunReadyThrows
    \/ RunRetrievalThrows
    \/ RunThrew
    \/ RunRejected
    \/ RunReadyRejected

SpecFail == Init /\ [][NextFail]_vars

(***************************************************************************)
(* Index and manifest resolution (lines 150-291).                           *)
(*                                                                          *)
(* D_TAGS and EVENT_KINDS come from ./types: the current-index tag is a     *)
(* constant and archiveTag(n) is the archive tag of number n.  A tag value  *)
(* is a sequence of parts.                                                  *)
(***************************************************************************)
D_TAGS_CURRENT_INDEX == << "current" >>

D_TAGS_archiveTag(n) == << "archive", n >>

EVENT_KINDS_INDEX == "INDEX"

EVENT_KINDS_MANIFEST == "MANIFEST"

getDTagForPage_offByOne(page, totalArchives) ==
    IF page = 1 THEN D_TAGS_CURRENT_INDEX
    ELSE D_TAGS_archiveTag(totalArchives + 1 - page)

getDTagForPage(page, totalArchives) ==
    IF page = 1 THEN D_TAGS_CURRENT_INDEX
    ELSE LET archiveNumber == totalArchives + 2 - page
         IN  D_TAGS_archiveTag(archiveNumber)

(***************************************************************************)
(* The content of a record, by what JSON.parse makes of it: text that is    *)
(* not JSON, the JSON text `null`, another JSON value that is not an object *)
(* (reading a property of it gives undefined), or an object with its        *)
(* version and total_archives properties.                                   *)
(***************************************************************************)
JsonValue(type, n) == [type |-> type, n |-> n]

Undefined == JsonValue("undefined", 0)

JsonNumber(n) == JsonValue("number", n)

\* the string "2"
JsonString2 == JsonValue("string", 2)

Content(syntax, version, totalArchives) ==
    [syntax |-> syntax, version |-> version, total_archives |-> totalArchives]

Malformed == Content("malformed", Undefined, 0)

JsonNull == Content("null", Undefined, 0)

JsonScalar == Content("scalar", Undefined, 0)

Contents ==
    { Malformed, JsonNull, JsonScalar }
        \cup { Content("object", v, 0) : v \in { Undefined, JsonNumber(1), JsonString2 } }
        \cup { Content("object", JsonNumber(2), t) : t \in 0 .. MaxArchives }

ResolverRecords ==
    { [created_at |-> t, content |-> content] : t \in 1 .. MaxCreatedAt, content \in Contents }

\* what pool.querySync may resolve to
Responses == UNION { [1 .. n -> ResolverRecords] : n \in 0 .. MaxRecords }

IndexFilter(dTag) ==
    [kinds |-> EVENT_KINDS_INDEX, tag |-> "#d", value |-> dTag, limit |-> 1]

ManifestFilter(tagName) ==
    [kinds |-> EVENT_KINDS_MANIFEST, tag |-> tagName, value |-> << FileHash >>, limit |-> 1]

\* events.reduce((a, b) => a.created_at > b.created_at ? a : b)
RECURSIVE Reduce(_, _)
Reduce(a, rest) ==
    IF rest = << >> THEN a
    ELSE Reduce(IF a.created_at > Head(rest).created_at THEN a ELSE Head(rest), Tail(rest))

MostRecent(events) == Reduce(Head(events), Tail(events))

Outcome(outcome, value) == [outcome |-> outcome, value |-> value]

(***************************************************************************)
(* Lines 181-198, 214-230 and 268-290: what the call makes of the records   *)
(* a query returned.  JSON.parse throws on text that is not JSON and the    *)
(* catch returns null; reading .version of null throws a TypeError; a       *)
(* version other than the number 2 throws the unsupported-version error.    *)
(***************************************************************************)
ParseMostRecent_noVersionCheck(events) ==
    IF Len(events) = 0 THEN Outcome("nothing", None)
    ELSE LET content == MostRecent(events).content
         IN  IF content.syntax = "malformed" THEN Outcome("nothing", None)
             ELSE IF content.syntax = "null" THEN Outcome("typeError", None)
             ELSE Outcome("returned", Some(content))

ParseMostRecent(events) ==
    IF Len(events) = 0 THEN Outcome("nothing", None)
    ELSE LET content == MostRecent(events).content
             version == IF content.syntax = "object" THEN content.version ELSE Undefined
         IN  IF content.syntax = "malformed" THEN Outcome("nothing", None)
             ELSE IF content.syntax = "null" THEN Outcome("typeError", None)
             ELSE IF version # JsonNumber(2) THEN Outcome("unsupported", None)
             ELSE Outcome("returned", Some(content))

chunkVars == << cacheExists, cacheMap, inFlight, pc, chunkInfos, chunksByIndex,
                seenEventIds, sub, phase, batchStart, fetchValue, waiters, result,
                progress, microq, relayEvents,
                path, waitedOn, readySize, subsOpened, stoppedAt, last >>

Finish(r, response, res) ==
    [r EXCEPT !.step = "done", !.response = response,
              !.outcome = res.outcome, !.value = res.value]

\* getDTagForPage called on its own
ApplyGetDTagForPage(page, totalArchives) ==
    /\ resolver.step = "idle"
    /\ resolver' = [resolver EXCEPT !.op = "getDTagForPage", !.page = page,
                                    !.totalArchives = totalArchives, !.step = "done",
                                    !.dTag = Some(getDTagForPage(page, totalArchives))]
    /\ UNCHANGED chunkVars

\* lines 171-180 and, for page > 1, line 201 with lines 173-180 of the inner
\* call: the query for the current index is issued
CallFetchFileIndex(page) ==
    /\ resolver.step = "idle"
    /\ resolver' = [resolver EXCEPT !.op = "fetchFileIndex", !.page = page,
                                    !.step = "page1",
                                    !.queries = << IndexFilter(D_TAGS_CURRENT_INDEX) >>]
    /\ UNCHANGED chunkVars

\* lines 180-198; for page > 1 these run in the inner call and lines 201-213
\* follow: an error of the inner call propagates, null returns null, and an
\* index leads to the query for the page's archive tag
Page1Returns_noNullCheck(events) ==
    LET res == ParseMostRecent(events)
        dTag == getDTagForPage(resolver.page,
                               IF res.outcome = "returned"
                               THEN res.value[1].total_archives ELSE 0)
    IN  /\ resolver.step = "page1"
        /\ resolver' =
             IF resolver.page = 1 THEN Finish(resolver, events, res)
             ELSE IF res.outcome \notin {"returned", "nothing"}
             THEN [Finish(resolver, events, res) EXCEPT !.inner = res.outcome]
             ELSE [resolver EXCEPT !.step = "archive", !.response = << >>,
                                   !.inner = res.outcome, !.currentIndex = res.value,
                                   !.dTag = Some(dTag),
                                   !.queries = Append(@, IndexFilter(dTag))]
        /\ UNCHANGED chunkVars

Page1Returns(events) ==
    LET res == ParseMostRecent(events)
        dTag == getDTagForPage(resolver.page, res.value[1].total_archives)
    IN  /\ resolver.step = "page1"
        /\ resolver' =
             IF resolver.page = 1 THEN Finish(resolver, events, res)
             ELSE IF res.outcome # "returned"
             THEN [Finish(resolver, events, res) EXCEPT !.inner = res.outcome]
             ELSE [resolver EXCEPT !.step = "archive", !.response = << >>,
                                   !.inner = res.outcome, !.currentIndex = res.value,
                                   !.dTag = Some(dTag),
                                   !.queries = Append(@, IndexFilter(dTag))]
        /\ UNCHANGED chunkVars

\* lines 213-230
ArchiveReturns(events) ==
    /\ resolver.step = "archive"
    /\ resolver' = Finish(resolver, events, ParseMostRecent(events))
    /\ UNCHANGED chunkVars

\* lines 245-263: the first filter of the loop, '#x'
CallFetchManifest ==
    /\ resolver.step = "idle"
    /\ resolver' = [resolver EXCEPT !.op = "fetchManifest", !.step = "x",
                                    !.queries = << ManifestFilter("#x") >>]
    /\ UNCHANGED chunkVars

\* lines 263-265 for the '#x' query: break when it returned records (lines
\* 268-290 follow), else the '#d' query
XReturns_noBreak(events) ==
    /\ resolver.step = "x"
    /\ resolver' = [resolver EXCEPT !.step = "d", !.response = events,
                                    !.xCount = Some(Len(events)),
                                    !.queries = Append(@, ManifestFilter("#d"))]
    /\ UNCHANGED chunkVars

XReturns(events) ==
    /\ resolver.step = "x"
    /\ resolver' =
         IF Len(events) > 0
         THEN [Finish(resolver, events, ParseMostRecent(events))
                 EXCEPT !.xCount = Some(Len(events))]
         ELSE [resolver EXCEPT !.step = "d", !.response = events,
                               !.xCount = Some(Len(events)),
                               !.queries = Append(@, ManifestFilter("#d"))]
    /\ UNCHANGED chunkVars

\* lines 263-290 for the '#d' query, the last filter of the loop
DReturns(events) ==
    /\ resolver.step = "d"
    /\ resolver' = Finish(resolver, events, ParseMostRecent(events))
    /\ UNCHANGED chunkVars

GetDTag ==
    /\ resolver.step = "idle"
    /\ \E page \in 1 .. MaxPageArg, totalArchives \in 0 .. MaxArchivesArg :
           ApplyGetDTagForPage(page, totalArchives)

FetchFileIndex ==
    /\ resolver.step = "idle"
    /\ \E page \in 1 .. MaxPage : CallFetchFileIndex(page)

FetchManifest == CallFetchManifest

QueryPage1 ==
    /\ resolver.step = "page1"
    /\ \E events \in Responses : Page1Returns(events)

QueryArchive ==
    /\ resolver.step = "archive"
    /\ \E events \in Responses : ArchiveReturns(events)

QueryX ==
    /\ resolver.step = "x"
    /\ \E events \in Responses : XReturns(events)

QueryD ==
    /\ resolver.step = "d"
    /\ \E events \in Responses : DReturns(events)

NextResolve ==
    \/ GetDTag
    \/ FetchFileIndex
    \/ FetchManifest
    \/ QueryPage1
    \/ QueryArchive
    \/ QueryX
    \/ QueryD

SpecResolve == Init /\ [][NextResolve]_vars

(***************************************************************************)
(* Properties.                                                              *)
(***************************************************************************)
\* call c runs a retrieval: it passed the cache and in-flight checks and its
\* closure has not returned yet (a subscription is open or about to be)
Active(c) == pc[c] = "fetching" /\ phase[c] \in {"ids", "x"}

ActiveCalls == { c \in Callers : Active(c) }

\* C1: in every reachable state at most one retrieval operation is active
\* for the key, however many calls of fetchChunks are running.
C1_AtMostOneRetrieval == Cardinality(ActiveCalls) <= 1

\* the calls made so far
Invoked == { c \in Callers : pc[c] # "idle" }

Values(seq) == { seq[k] : k \in 1 .. Len(seq) }

\* C2 as stated: of two requests made before either completes, the later one
\* (it found the first one's retrieval in flight) never opens a subscription.
C2_WaiterOpensNothing ==
    \A c \in Callers :
        (Invoked = {1, 2} /\ waitedOn[c] # 0) => subsOpened[c] = 0

\* C2 amended: a call that found a retrieval in flight opens no subscription
\* before that retrieval has returned, and none at all when the cache entry
\* holds exactly TotalChunks chunks as the call resumes.
C2_WaiterOpensNothingWhenComplete ==
    \A c \in Callers :
        waitedOn[c] # 0 =>
            /\ subsOpened[c] > 0 => phase[waitedOn[c]] = "returned"
            /\ pc[c] = "waiting" => subsOpened[c] = 0
            /\ readySize[c] = Some(TotalChunks) => subsOpened[c] = 0

C2_Witness ==
    \E c \in Callers :
        /\ waitedOn[c] # 0
        /\ pc[c] = "done"
        /\ readySize[c] = Some(TotalChunks)
        /\ subsOpened[waitedOn[c]] > 0

\* C3 as stated: two requests made before either completes return the same
\* chunk set.
C3_SameResult ==
    \A c \in Callers :
        (Invoked = {1, 2} /\ waitedOn[c] # 0 /\ pc[c] = "done")
            => result[c] = result[waitedOn[c]]

\* C3 amended: the result of a call that waited on a retrieval holds every
\* index of that retrieval's result; when these two are the only calls made,
\* it holds each of those chunks unchanged, and the two results are equal
\* when the retrieval left exactly TotalChunks chunks in the cache entry.
C3_WaiterResultExtends ==
    \A c \in Callers :
        (waitedOn[c] # 0 /\ pc[c] = "done") =>
            /\ pc[waitedOn[c]] = "done"
            /\ MapKeys(result[waitedOn[c]]) \subseteq MapKeys(result[c])
            /\ Cardinality(Invoked) = 2 =>
                   /\ Values(result[waitedOn[c]]) \subseteq Values(result[c])
                   /\ readySize[c] = Some(TotalChunks)
                          => result[c] = result[waitedOn[c]]

C3_Witness ==
    \E c \in Callers :
        /\ waitedOn[c] # 0
        /\ pc[c] = "done"
        /\ Cardinality(Invoked) = 2
        /\ readySize[c] = Some(TotalChunks)
        /\ Len(result[c]) = TotalChunks
        /\ result[c] = result[waitedOn[c]]

\* C5: a call made while the cache entry holds exactly TotalChunks distinct
\* indices returns the cached chunks at once, opens no subscription and leaves
\* the entry's map and in-flight handle as they were.
C5_CacheHit ==
    [][\A c \in Callers :
          (/\ pc[c] = "idle"
           /\ pc'[c] # "idle"
           /\ cacheExists
           /\ Cardinality(MapKeys(cacheMap)) = TotalChunks)
          => /\ pc'[c] = "done"
             /\ Len(result'[c]) = Len(cacheMap)
             /\ Values(result'[c]) = Values(cacheMap)
             /\ sub'[c] = None
             /\ subsOpened'[c] = 0
             /\ UNCHANGED << cacheExists, cacheMap, inFlight >>]_vars

C5_Witness ==
    \E c \in Callers :
        /\ path[c] = "hit"
        /\ pc[c] = "done"
        /\ Len(result[c]) = TotalChunks
        /\ subsOpened[c] = 0

\* C6: once the shared map of the key holds a chunk for an index, that chunk
\* is never replaced or removed.
C6_FirstWriterWins ==
    [][\A k \in 1 .. Len(cacheMap) :
          /\ MapHas(cacheMap', cacheMap[k].index)
          /\ MapGet(cacheMap', cacheMap[k].index) = cacheMap[k]]_vars

\* C7: every result returned by fetchChunks, on each return path, is strictly
\* ascending by chunk index.
C7_ResultsAscending ==
    \A c \in Callers :
        pc[c] = "done" =>
            \A j, k \in 1 .. Len(result[c]) :
                j < k => result[c][j].index < result[c][k].index

\* each return path has returned chunks that arrived out of index order
C7_Witness ==
    /\ Len(cacheMap) >= 2
    /\ cacheMap[1].index > cacheMap[2].index
    /\ \E c1, c2, c3 \in Callers :
          /\ pc[c1] = "done" /\ path[c1] = "hit" /\ Len(result[c1]) >= 2
          /\ pc[c2] = "done" /\ path[c2] = "waited" /\ Len(result[c2]) >= 2
          /\ pc[c3] = "done" /\ path[c3] = "fetched" /\ Len(result[c3]) >= 2

\* C8: a record whose identifier the retrieval has already processed is
\* ignored: handling it changes no chunk map and reports no progress.
C8_DuplicateIdIgnored ==
    [][(/\ last'.kind = "event"
        /\ last'.id \in seenEventIds[last'.caller])
       => UNCHANGED << chunksByIndex, cacheMap, progress >>]_vars

\* a record that shares its identifier with one retained earlier, and has
\* another content and index, has just been ignored
C8_Witness ==
    /\ last.kind = "event"
    /\ last.outcome = "duplicate"
    /\ last.index # None
    /\ ~ MapHas(chunksByIndex[last.caller], last.index[1])
    /\ \A k \in 1 .. Len(cacheMap) : cacheMap[k].content # last.content

\* C10: when an insertion makes the count of a retrieval reach TotalChunks,
\* the open subscription is closed at once, the retrieval opens no further
\* subscription, and the call returns exactly TotalChunks chunks.
C10_EarlyStop ==
    /\ (/\ last.kind = "event"
        /\ last.outcome = "inserted"
        /\ Len(chunksByIndex[last.caller]) >= TotalChunks)
       => sub[last.caller] = None
    /\ \A c \in Callers :
          stoppedAt[c] # None =>
              /\ sub[c] = None
              /\ subsOpened[c] = stoppedAt[c][1].subs
              /\ (pc[c] = "done" /\ stoppedAt[c][1].reached)
                     => Len(result[c]) = TotalChunks

\* a call returned after an early stop in the id phase, with batches left
C10_Witness ==
    \E c \in Callers :
        /\ pc[c] = "done"
        /\ stoppedAt[c] # None
        /\ stoppedAt[c][1].reached
        /\ stoppedAt[c][1].subs = 1
        /\ Len(IdsOf(chunkInfos[c])) > CHUNK_ID_BATCH_SIZE
        /\ Len(result[c]) = TotalChunks

(***************************************************************************)
(* Index parsing.  The relays hold one record whose 'chunk' and 'd' tags    *)
(* are drawn from every character string of up to MaxTagLen characters      *)
(* (the 'd' tag also behind the prefix "h:"); either tag may be absent or   *)
(* have no value.  One call fetches it.                                     *)
(***************************************************************************)
TagChars == { "0", "1", ":", "x", "-" }

RECURSIVE StringsUpTo(_)
StringsUpTo(n) ==
    IF n = 0 THEN { << >> }
    ELSE LET shorter == StringsUpTo(n - 1)
         IN  shorter \cup { Append(s, ch) : s \in shorter, ch \in TagChars }

TagValues == StringsUpTo(MaxTagLen)

ChunkTagChoices ==
    { << >>, << << "chunk" >> >> } \cup { << << "chunk", v >> >> : v \in TagValues }

DTagChoices ==
    { << >>, << << "d" >> >> }
        \cup { << << "d", v >> >> : v \in TagValues }
        \cup { << << "d", << "h", ":" >> \o v >> >> : v \in TagValues }

ProbeEvents ==
    { [id |-> id, content |-> "p", tags |-> d \o << << "x", "h" >> >> \o ch] :
          id \in { "e1", "e9" }, d \in DTagChoices, ch \in ChunkTagChoices }

ParseInit == \E probe \in ProbeEvents : InitWith({probe})

InvokeFirst == \E infos \in ChunkInfoChoices : Call(1, infos)

ParseNext ==
    \/ InvokeFirst
    \/ OnEvent
    \/ OnClose
    \/ RunRetrieval
    \/ RunSettled

SpecParse == ParseInit /\ [][ParseNext]_vars

\* the decimal numeral of n, for n < 100
Numeral(n) ==
    IF n < 10 THEN << DigitChars[n + 1] >>
    ELSE << DigitChars[(n \div 10) + 1], DigitChars[(n % 10) + 1] >>

\* the text after the last colon of s
TrailingSegment(s) ==
    CHOOSE seg \in { SubSeq(s, k, Len(s)) : k \in 1 .. Len(s) + 1 } :
        /\ \A j \in 1 .. Len(seg) : seg[j] # ":"
        /\ Len(seg) < Len(s) => s[Len(s) - Len(seg)] = ":"

TagsNamed(event, name) ==
    { k \in 1 .. Len(event.tags) : event.tags[k][1] = name }

\* C9: a handled record whose 'chunk' tag holds the numeral of n (or any text
\* parseInt accepts) gets index n whatever its 'd' tag says; a record without
\* 'chunk' tag whose 'd' tag ends, after its last colon, in an integer gets
\* that integer as index.
C9_IndexFromTags ==
    \A event \in relayEvents :
        (last.kind = "event" /\ last.id = event.id /\ last.content = event.content) =>
            /\ \A k \in TagsNamed(event, "chunk") :
                  /\ Len(event.tags[k]) >= 2
                  /\ event.tags[k][2] # << >>
                  => /\ \A n \in 0 .. 99 :
                           event.tags[k][2] = Numeral(n) => last.index = Some(n)
                     /\ parseInt(event.tags[k][2]) # None
                           => last.index = parseInt(event.tags[k][2])
            /\ TagsNamed(event, "chunk") = {} =>
                  \A k \in TagsNamed(event, "d") :
                      /\ Len(event.tags[k]) >= 2
                      /\ event.tags[k][2] # << >>
                      => /\ \A n \in 0 .. 99 :
                               TrailingSegment(event.tags[k][2]) = Numeral(n)
                                   => last.index = Some(n)
                         /\ parseInt(TrailingSegment(event.tags[k][2])) # None
                               => last.index = parseInt(TrailingSegment(event.tags[k][2]))
            /\ last.outcome = "inserted" =>
                  /\ MapHas(chunksByIndex[last.caller], last.index[1])
                  /\ MapGet(chunksByIndex[last.caller], last.index[1]).content
                         = event.content

\* a record whose 'chunk' tag says 1 and whose 'd' tag ends in 0 was stored
\* under index 1
C9_Witness ==
    \E event \in relayEvents :
        /\ last.kind = "event" /\ last.id = event.id /\ last.content = event.content
        /\ last.outcome = "inserted"
        /\ \E k \in TagsNamed(event, "chunk") : event.tags[k] = << "chunk", << "1" >> >>
        /\ \E k \in TagsNamed(event, "d") : event.tags[k] = << "d", << "h", ":", "0" >> >>
        /\ MapKeys(cacheMap) = {1}

\* C4: every call of fetchChunks that was made eventually returns, provided
\* every subscription eventually closes.
C4_EveryCallReturns ==
    \A c \in Callers : (pc[c] # "idle") ~> (pc[c] = "done")

\* every call has returned, one of them after waiting on a retrieval that
\* fell short and then running id batches and the fallback itself, still
\* without all the chunks
C4_Witness ==
    /\ \A c \in Callers : pc[c] = "done"
    /\ \E c \in Callers :
          /\ waitedOn[c] # 0
          /\ path[c] = "fetched"
          /\ subsOpened[c] > Len(IdsOf(ManifestChunkInfos)) \div CHUNK_ID_BATCH_SIZE
          /\ Len(result[c]) < TotalChunks


(***************************************************************************)
(* The fallback subscription (lines 461-477).                               *)
(***************************************************************************)
C11_Step(c) ==
    \* the fallback subscription is opened only while fewer than TotalChunks
    \* chunks are held, and it carries the content-hash filter
    /\ (phase[c] # "x" /\ phase'[c] = "x") =>
            /\ Len(chunksByIndex'[c]) < TotalChunks
            /\ sub'[c] = Some(FallbackFilter)
            /\ subsOpened'[c] = subsOpened[c] + 1
    \* a retrieval that returns without it holds at least TotalChunks chunks
    /\ (phase[c] \in {"none", "ids"} /\ phase'[c] = "returned") =>
            Len(fetchValue'[c]) >= TotalChunks
    \* at most once: after the fallback subscription the retrieval returns
    /\ phase[c] = "x" =>
            /\ phase'[c] \in {"x", "returned"}
            /\ subsOpened'[c] = subsOpened[c]
    /\ phase[c] = "returned" => phase'[c] = "returned"
    \* empty chunk_infos: no identifier-filtered subscription
    /\ (pc'[c] # "idle" /\ chunkInfos'[c] = << >>) =>
            /\ phase'[c] # "ids"
            /\ sub'[c] \in {None, Some(FallbackFilter)}
            /\ subsOpened'[c] <= 1
    \* and the fallback subscription alone collects the chunks
    /\ (chunkInfos'[c] = << >> /\ path'[c] = "fetched" /\ stoppedAt'[c] # None) =>
            Len(result'[c]) = TotalChunks

\* C11: the fallback subscription, filtered by the content-hash tag, is
\* opened exactly when fewer than TotalChunks chunks are held after the id
\* batches, and at most once per retrieval; with empty chunk_infos no
\* id-filtered subscription is opened, and a retrieval the relays served all
\* chunks to under that tag returns TotalChunks chunks.
C11_FallbackWhenShort == [][\A c \in Callers : C11_Step(c)]_vars

C11_Witness ==
    \E c \in Callers :
        /\ chunkInfos[c] = << >>
        /\ path[c] = "fetched"
        /\ phase[c] = "returned"
        /\ subsOpened[c] = 1
        /\ stoppedAt[c] # None
        /\ Len(result[c]) = TotalChunks


(***************************************************************************)
(* The in-flight handle (lines 482-494).                                    *)
(***************************************************************************)
\* no call of fetchChunks is running
NoCallRunning == \A c \in Callers : pc[c] \in {"idle", "done", "failed"}

\* the call whose `await fetchPromise` settles leaves no in-flight handle
C12_Step(c) ==
    (pc[c] = "fetching" /\ pc'[c] \in {"done", "failed"}) => inFlight' = 0

\* C12: the in-flight handle of the key is cleared whenever a retrieval
\* settles, by success and by failure alike, and whenever no call of
\* fetchChunks is running the cache entry has no in-flight handle.
C12_InFlightCleared ==
    /\ [](NoCallRunning => inFlight = 0)
    /\ [][\A c \in Callers : C12_Step(c)]_vars

C12_Witness ==
    /\ NoCallRunning
    /\ inFlight = 0
    /\ \E c \in Callers : pc[c] = "failed" /\ phase[c] = "rejected"
    /\ \E c \in Callers : pc[c] = "done" /\ path[c] = "fetched"


(***************************************************************************)
(* Index and manifest resolution.                                           *)
(***************************************************************************)
\* C13: getDTagForPage gives, for every page N > 1 and every total_archives
\* T, the archive tag whose number is T + 2 - N, and for page 1 the constant
\* current-index tag whatever T is.
C13_ArchiveNumber ==
    (resolver.op = "getDTagForPage" /\ resolver.step = "done") =>
        LET dTag == resolver.dTag[1]
        IN  IF resolver.page = 1
            THEN dTag = D_TAGS_CURRENT_INDEX
            ELSE /\ Len(dTag) = 2
                 /\ dTag[1] = "archive"
                 /\ dTag[2] = resolver.totalArchives + 2 - resolver.page

C13_Witness ==
    /\ resolver.op = "getDTagForPage"
    /\ resolver.page = MaxPageArg
    /\ resolver.totalArchives = 1
    /\ resolver.dTag = Some(<< "archive", 3 - MaxPageArg >>)


\* the records of a response with the greatest created_at
Newest(events) ==
    { k \in 1 .. Len(events) :
        \A j \in 1 .. Len(events) : events[j].created_at <= events[k].created_at }

\* an object whose version is not the number 2 (a missing version included)
OtherVersion(content) == content.syntax = "object" /\ content.version # JsonNumber(2)

Done(op) == resolver.op = op /\ resolver.step = "done"

ResolverDone == Done("fetchFileIndex") \/ Done("fetchManifest")

\* C14: fetchFileIndex and fetchManifest never return a record whose version
\* is not 2; when the most recent record of the answer is an object of
\* another version the call fails with the unsupported-version error, never
\* with nothing-found, also for the page-1 lookup made for a page N > 1.
C14_VersionGate ==
    ResolverDone =>
        /\ resolver.outcome = "returned" =>
              /\ resolver.value # None
              /\ resolver.value[1].syntax = "object"
              /\ resolver.value[1].version = JsonNumber(2)
        /\ ( /\ resolver.response # << >>
             /\ \A k \in Newest(resolver.response) :
                    OtherVersion(resolver.response[k].content) )
              => resolver.outcome = "unsupported"

C14_Witness ==
    /\ Done("fetchFileIndex")
    /\ resolver.page > 1
    /\ Len(resolver.queries) = 1
    /\ Len(resolver.response) = 2
    /\ resolver.response[1].content = Content("object", JsonNumber(2), 0)
    /\ resolver.response[2].content = Content("object", JsonNumber(1), 0)
    /\ resolver.response[2].created_at > resolver.response[1].created_at
    /\ resolver.outcome = "unsupported"


\* C15: when the payload of the most recent record is not a parseable index
\* or manifest object, the call returns nothing-found and raises no error.
C15_ParseFailureIsNothingFound ==
    ( /\ ResolverDone
      /\ resolver.response # << >>
      /\ \A k \in Newest(resolver.response) :
             resolver.response[k].content.syntax # "object" )
        => resolver.outcome = "nothing"

\* C16: when the answer holds a record with an unparseable payload and a
\* valid version-2 record, the call returns a valid record.
C16_CorruptRecordTolerated ==
    ( /\ ResolverDone
      /\ \E k \in 1 .. Len(resolver.response) :
             resolver.response[k].content = Malformed
      /\ \E k \in 1 .. Len(resolver.response) :
             /\ resolver.response[k].content.syntax = "object"
             /\ resolver.response[k].content.version = JsonNumber(2) )
        => /\ resolver.outcome = "returned"
           /\ resolver.value[1].version = JsonNumber(2)


\* C18: for a page N > 1 the archive query is issued only after the query
\* for the current index has returned a valid index, with the tag computed
\* from that index's total_archives; when page 1 resolves to nothing-found
\* the call returns nothing-found and issues no archive query.
C18_TwoStepLookup ==
    (resolver.op = "fetchFileIndex" /\ resolver.page > 1) =>
        /\ Len(resolver.queries) \in {1, 2}
        /\ resolver.queries[1] = IndexFilter(D_TAGS_CURRENT_INDEX)
        /\ Len(resolver.queries) = 2 =>
              /\ resolver.inner = "returned"
              /\ resolver.currentIndex # None
              /\ resolver.currentIndex[1].syntax = "object"
              /\ resolver.currentIndex[1].version = JsonNumber(2)
              /\ resolver.queries[2].kinds = EVENT_KINDS_INDEX
              /\ resolver.queries[2].tag = "#d"
              /\ resolver.queries[2].value =
                    << "archive", resolver.currentIndex[1].total_archives + 2 - resolver.page >>
        /\ resolver.inner = "nothing" =>
              /\ resolver.step = "done"
              /\ resolver.outcome = "nothing"
              /\ Len(resolver.queries) = 1
        \* page 1 resolves to nothing-found when the query returns no record
        /\ (resolver.step = "done" /\ Len(resolver.queries) = 1
              /\ resolver.response = << >>) => resolver.inner = "nothing"

C18_Witness ==
    /\ Done("fetchFileIndex")
    /\ resolver.page = 3
    /\ resolver.currentIndex # None
    /\ resolver.currentIndex[1].total_archives = 2
    /\ resolver.queries = << IndexFilter(D_TAGS_CURRENT_INDEX), IndexFilter(<< "archive", 1 >>) >>
    /\ resolver.outcome = "returned"

\* C19: fetchManifest issues the '#x' query first and the '#d' query only
\* if the '#x' query returned no record; the manifest returned is parsed
\* from the answer of the first of the two that returned any record.
C19_XThenD ==
    (resolver.op = "fetchManifest") =>
        /\ Len(resolver.queries) \in {1, 2}
        /\ resolver.queries[1] = ManifestFilter("#x")
        /\ Len(resolver.queries) = 2 =>
              /\ resolver.queries[2] = ManifestFilter("#d")
              /\ resolver.xCount = Some(0)
        /\ (resolver.xCount # None /\ resolver.xCount # Some(0)) =>
              /\ resolver.step = "done"
              /\ Len(resolver.queries) = 1
        /\ (resolver.step = "done" /\ resolver.outcome = "returned") =>
              \E k \in 1 .. Len(resolver.response) :
                  resolver.value = Some(resolver.response[k].content)

C19_Witness ==
    /\ Done("fetchManifest")
    /\ resolver.queries = << ManifestFilter("#x"), ManifestFilter("#d") >>
    /\ resolver.xCount = Some(0)
    /\ Len(resolver.response) > 0
    /\ resolver.outcome = "returned"


(***************************************************************************)
(* Records that cannot be placed (lines 413-415).                           *)
(***************************************************************************)
\* no 'chunk' tag of the record holds an integer, and no 'd' tag ends, after
\* its last colon, in an integer
NoIndexInTags(event) ==
    /\ \A k \in TagsNamed(event, "chunk") :
           Len(event.tags[k]) < 2 \/ parseInt(event.tags[k][2]) = None
    /\ \A k \in TagsNamed(event, "d") :
           Len(event.tags[k]) < 2 \/ parseInt(TrailingSegment(event.tags[k][2])) = None

\* the step is the handling of event
Handles(event) ==
    last'.kind = "event" /\ last'.id = event.id /\ last'.content = event.content

NothingInserted == UNCHANGED << chunksByIndex, cacheMap, progress >>

\* C17 as stated: handling a record without an integer in its 'chunk' tag
\* and in the last segment of its 'd' tag inserts no chunk into the
\* retrieval's map or the cache's map and calls no progress callback.
C17_UnplaceableDiscarded ==
    [][\A event \in relayEvents :
          (Handles(event) /\ NoIndexInTags(event)) => NothingInserted]_vars

\* C17 amended: such a record is discarded when chunk_infos has no entry for
\* its id either; when chunk_infos has one, the record gets the index of
\* that entry and is stored under it like any other record.
C17_DiscardedUnlessInManifest ==
    [][\A event \in relayEvents :
          (Handles(event) /\ NoIndexInTags(event)) =>
              LET fromInfos == IndexOfEventId(chunkInfos[last'.caller], event.id)
              IN  /\ fromInfos = None =>
                        /\ NothingInserted
                        /\ last'.outcome \in {"discarded", "duplicate"}
                  /\ last'.index = fromInfos
                  /\ last'.outcome = "inserted" =>
                        /\ MapHas(chunksByIndex'[last'.caller], fromInfos[1])
                        /\ MapGet(chunksByIndex'[last'.caller], fromInfos[1]).content
                               = event.content]_vars

C17_Witness ==
    \E event \in relayEvents :
        /\ last.kind = "event" /\ last.id = event.id /\ last.content = event.content
        /\ NoIndexInTags(event)
        /\ \E k \in TagsNamed(event, "d") : event.tags[k] = << "d", << "h", ":", "x" >> >>
        /\ \E k \in TagsNamed(event, "chunk") : event.tags[k] = << "chunk", << "-" >> >>
        /\ chunkInfos[last.caller] = ManifestChunkInfos
        /\ IndexOfEventId(ManifestChunkInfos, event.id) = None
        /\ last.outcome = "discarded"
        /\ cacheMap = << >>


(***************************************************************************)
(* Retries (lines 392-406 and 434-453).                                     *)
(***************************************************************************)
\* some call has returned fewer than TotalChunks chunks
ShortResultReturned == \E b \in Callers : pc[b] = "done" /\ Len(result[b]) < TotalChunks

\* the step is the invocation of call c, it starts a retrieval, and the
\* retrieval opens its first subscription
RetryOpens(c) ==
    /\ ShortResultReturned
    /\ pc[c] = "idle"
    /\ pc'[c] = "fetching"
    /\ sub'[c] # None

\* C20: a call made after a short result reuses the chunks the cache holds
\* at its invocation and does not request them from the relays again: the
\* retrieval starts from those chunks, and the subscription it opens matches
\* no record of a chunk the cache holds.
C20_RetryDoesNotRefetch ==
    [][\A c \in Callers :
          RetryOpens(c) =>
              /\ chunksByIndex'[c] = CachedMap
              /\ \A event \in relayEvents :
                    Matches(sub'[c][1], event) =>
                        LET index == ChunkIndexOf(event, chunkInfos'[c])
                        IN  index # None => ~ MapHas(CachedMap, index[1])]_vars


(***************************************************************************)
(* Completeness by count (lines 380-382, 413-431, 452-461).                 *)
(***************************************************************************)
ExpectedIndices == 0 .. TotalChunks - 1

\* C21: whenever a call returns exactly TotalChunks chunks, and whenever the
\* cache entry counts as satisfied, the indices held are exactly
\* 0 .. TotalChunks - 1, whatever records the relays send.
C21_CountImpliesComplete ==
    /\ \A c \in Callers :
          (pc[c] = "done" /\ Len(result[c]) = TotalChunks) =>
              MapKeys(result[c]) = ExpectedIndices
    /\ (cacheExists /\ Len(cacheMap) = TotalChunks) =>
          MapKeys(cacheMap) = ExpectedIndices

=============================================================================
